---- MODULE Spec2Model ----
(***************************************************************************)
(* Model of main.py: the Linear agent (LinearAgent), its tracker client    *)
(* (make_linear_request, get_team_issues, create_issue_comment) and the    *)
(* FastAPI application (startup_event, handle_webhook, health_check).      *)
(*                                                                         *)
(* Python values are tagged records: None, Str(s), List and Dict(f), where *)
(* f is a function from the keys present in the dict to their values.      *)
(* A call either returns a value or raises: Return(v, n) and Raise(e, n),  *)
(* n being the number of outbound POSTs the call made.                     *)
(***************************************************************************)
EXTENDS Integers, FiniteSets, Sequences, TLC

VARIABLES
    env,            \* the process environment read by os.getenv
    linear_config,  \* the global LinearConfig
    access_token,   \* agent.access_token
    phase,          \* "init", "running" or "startup_failed"
    outbound,       \* number of requests.post calls made so far
    last            \* the last operation: its input and its outcome

vars == <<env, linear_config, access_token, phase, outbound, last>>

\* Cap on the number of outbound POSTs explored.
MaxOutbound == 2

-----------------------------------------------------------------------------
\* Python values

None == [k |-> "None"]
Str(s) == [k |-> "str", s |-> s]
List == [k |-> "list"]
Dict(f) == [k |-> "dict", f |-> f]
EmptyDict == Dict([x \in {} |-> None])

\* Marks a key left out when a dict literal is enumerated.
Absent == [k |-> "absent"]
MkDict(g) == Dict([x \in {y \in DOMAIN g : g[y] # Absent} |-> g[x]])

\* Only a dict has a .get method; any other value raises AttributeError.
HasGet(v) == v.k = "dict"
\* dict.get(key, default)
Get(d, key, default) == IF key \in DOMAIN d.f THEN d.f[key] ELSE default

\* A guard written `is None` instead of `not`: the empty string passes it.
Falsy_is_none(x) == x = None

\* `not x` of Python for an Optional[str]
Falsy(x) == x = None \/ x = Str("")

Return(v, n) == [raised |-> FALSE, exc |-> "", value |-> v, posts |-> n]
Raise(e, n) == [raised |-> TRUE, exc |-> e, value |-> None, posts |-> n]

-----------------------------------------------------------------------------
\* Environment and configuration

\* os.getenv(name): None when the variable is unset
getenv(e, name) == IF name \in DOMAIN e THEN Str(e[name]) ELSE None
\* os.getenv(name, default)
getenv_default(e, name, default) == IF name \in DOMAIN e THEN Str(e[name]) ELSE Str(default)

\* LINEAR_ACCESS_TOKEN is unset, set to the empty string, or set to a token.
Environments ==
    { [x \in {"LINEAR_WEBHOOK_SECRET"} \cup t |->
          IF x = "LINEAR_ACCESS_TOKEN" THEN tok ELSE "whsec"] :
        t \in {{}, {"LINEAR_ACCESS_TOKEN"}}, tok \in {"", "lin_tok"} }

from_env(e) ==
    [ webhook_secret |-> getenv_default(e, "LINEAR_WEBHOOK_SECRET", ""),
      webhook_path   |-> getenv_default(e, "LINEAR_WEBHOOK_PATH", "/webhooks/linear"),
      api_url        |-> Str("https://api.linear.app/graphql") ]

-----------------------------------------------------------------------------
\* Tracker client

\* What the tracker answers to one POST.
TrackerStatuses == {200, 400, 401, 404, 500, 503}
TrackerBodies == {"complete", "partial", "errors_only", "not_json"}
TrackerResponses == [status : TrackerStatuses, body : TrackerBodies]

\* A status check that lets client errors through.
raises_for_status_5xx_only(status) == 500 <= status /\ status < 600

\* requests.Response.raise_for_status
raises_for_status(status) == 400 <= status /\ status < 600

make_linear_request(token, upstream) ==
    IF Falsy(token) THEN Raise("Exception: Not authenticated", 0)
    ELSE IF raises_for_status(upstream.status) THEN Raise("HTTPError", 1)
    ELSE IF upstream.body = "not_json" THEN Raise("JSONDecodeError", 1)
    ELSE Return(Str(upstream.body), 1)

get_team_issues(token, upstream) ==
    LET result == make_linear_request(token, upstream)
    IN  IF result.raised THEN result
        ELSE IF result.value = Str("errors_only") THEN Raise("KeyError", result.posts)
        ELSE Return(Dict([nodes |-> result.value]), result.posts)

create_issue_comment(token, upstream) ==
    LET result == make_linear_request(token, upstream)
    IN  IF result.raised THEN result
        ELSE IF result.value = Str("errors_only") THEN Raise("KeyError", result.posts)
        ELSE Return(Dict([commentCreate |-> result.value]), result.posts)

-----------------------------------------------------------------------------
\* Event handlers

Timestamps == {"2023-01-01T00:00:00", "2023-01-01T00:00:01"}

\* An assignment handler that notifies the assignee through the tracker.
handle_assignment_notifying(assignment_data, ts) ==
    IF ~HasGet(assignment_data) THEN Raise("AttributeError", 0)
    ELSE Return(Dict([ status      |-> Str("processed"),
                       assignee_id |-> Get(assignment_data, "assigneeId", None),
                       issue_id    |-> Get(assignment_data, "issueId", None),
                       timestamp   |-> Str(ts) ]), 1)

handle_assignment(assignment_data, ts) ==
    IF ~HasGet(assignment_data) THEN Raise("AttributeError", 0)
    ELSE Return(Dict([ status      |-> Str("processed"),
                       assignee_id |-> Get(assignment_data, "assigneeId", None),
                       issue_id    |-> Get(assignment_data, "issueId", None),
                       timestamp   |-> Str(ts) ]), 0)

process_issue_update(issue_data, ts) ==
    IF ~HasGet(issue_data) THEN Raise("AttributeError", 0)
    ELSE Return(Dict([ status    |-> Str("processed"),
                       issue_id  |-> Get(issue_data, "id", None),
                       timestamp |-> Str(ts) ]), 0)

-----------------------------------------------------------------------------
\* Webhook endpoint

\* HMAC of a message under a key, kept symbolic: equal exactly when key and
\* message are equal.
expected_signature(secret, message) == [mac_key |-> secret, mac_msg |-> message]

\* The stub: reports every signature valid.
verify_signature(payload, signature, secret) == TRUE

\* await request.json()
request_json(body) ==
    IF body.parseable THEN Return(body.value, 0) ELSE Raise("JSONDecodeError", 0)

\* An else branch that forgets to echo the received type.
unhandled_without_type(event_type) == Dict([status |-> Str("unhandled")])

\* The result of the final else branch.
unhandled(event_type) == Dict([status |-> Str("unhandled"), type |-> event_type])

\* Extract the event details and route on the event type.
route(payload, ts) ==
    IF ~HasGet(payload) THEN [res |-> Raise("AttributeError", 0), called |-> "none"]
    ELSE LET event_type == Get(payload, "type", None)
             action     == Get(payload, "action", None)
             data       == Get(payload, "data", EmptyDict)
         IN  IF event_type = Str("Assignment")
                 THEN [res |-> handle_assignment(data, ts), called |-> "handle_assignment"]
             ELSE IF event_type = Str("Issue")
                 THEN [res |-> process_issue_update(data, ts), called |-> "process_issue_update"]
             ELSE IF event_type = Str("Comment")
                 THEN [res |-> Return(Dict([status |-> Str("comment_processed")]), 0),
                       called |-> "none"]
             ELSE [res |-> Return(unhandled(event_type), 0),
                   called |-> "none"]

\* An except clause narrowed to the JSON parse error.
caught_parse_errors_only(exc) == exc = "JSONDecodeError"

\* `except Exception` catches every exception class the handler can raise.
caught(exc) == exc \in {"JSONDecodeError", "AttributeError", "KeyError", "HTTPError",
                        "Exception: Not authenticated"}

handle_webhook(request, ts) ==
    LET parsed == request_json(request.body)
        r == IF parsed.raised THEN [res |-> parsed, called |-> "none"]
             ELSE route(parsed.value, ts)
    IN  IF ~r.res.raised
            THEN [code |-> 200, content |-> r.res.value, detail |-> "",
                  exc |-> "", called |-> r.called, posts |-> r.res.posts]
        ELSE IF caught(r.res.exc)
            THEN [code |-> 500, content |-> None, detail |-> "Internal server error",
                  exc |-> r.res.exc, called |-> r.called, posts |-> r.res.posts]
        \* an exception leaving the endpoint is answered by the server's own handler
        ELSE [code |-> 500, content |-> Str("Internal Server Error"), detail |-> "",
              exc |-> r.res.exc, called |-> r.called, posts |-> r.res.posts]

health_check(ts) == Dict([status |-> Str("healthy"), timestamp |-> Str(ts)])

-----------------------------------------------------------------------------
\* Requests the endpoint can receive

TypeVals == {Absent, Str("Assignment"), Str("Issue"), Str("Comment"), Str("Project")}
ActionVals == {Absent, Str("create"), Str("remove")}
DataDicts ==
    { MkDict([assigneeId |-> a, issueId |-> i[1], id |-> i[2]]) :
        a \in {Absent, None, Str("u1")},
        i \in {<<Absent, Absent>>, <<Str("i1"), Absent>>, <<Absent, Str("i2")>>} }
DataVals == {Absent, None, List} \cup DataDicts

Envelopes ==
    { MkDict([type |-> t, action |-> a, data |-> d]) :
        t \in TypeVals, a \in ActionVals, d \in DataVals }

RequestBodies ==
    {[parseable |-> FALSE, value |-> None]}
        \cup {[parseable |-> TRUE, value |-> v] : v \in Envelopes \cup {None, List, Str("x")}}

Signatures(body) ==
    {None, expected_signature(Str("whsec"), body), expected_signature(Str("forged"), body)}

NoRequest == [body |-> None, signature |-> None]
NoUpstream == [status |-> 0, body |-> ""]
NoResponse == [code |-> 0, content |-> None, detail |-> "", exc |-> "", called |-> "none", posts |-> 0]

-----------------------------------------------------------------------------
\* State machine

Init ==
    /\ env \in Environments
    /\ linear_config = from_env(env)
    /\ access_token = None
    /\ phase = "init"
    /\ outbound = 0
    /\ last = [op |-> "none", req |-> NoRequest, upstream |-> NoUpstream,
               resp |-> NoResponse, ret |-> Return(None, 0)]

\* authenticate_app as called by startup_event: returns whether the token is not None.
authenticate_app(e) == [token |-> getenv(e, "LINEAR_ACCESS_TOKEN"),
                        result |-> getenv(e, "LINEAR_ACCESS_TOKEN") # None]

startup_event ==
    /\ phase = "init"
    /\ LET a == authenticate_app(env)
       IN  /\ access_token' = a.token
           /\ phase' = IF a.result THEN "running" ELSE "startup_failed"
           /\ last' = [op |-> "startup", req |-> NoRequest, upstream |-> NoUpstream,
                       resp |-> NoResponse,
                       ret |-> IF a.result THEN Return(None, 0)
                               ELSE Raise("Exception: Failed to authenticate Linear app", 0)]
    /\ UNCHANGED <<env, linear_config, outbound>>

HandleWebhook ==
    /\ phase = "running"
    /\ \E body \in RequestBodies : \E sig \in Signatures(body) : \E ts \in Timestamps :
        LET request == [body |-> body, signature |-> sig]
            resp == handle_webhook(request, ts)
        IN  /\ outbound + resp.posts <= MaxOutbound
            /\ outbound' = outbound + resp.posts
            /\ last' = [op |-> "webhook", req |-> request, upstream |-> NoUpstream,
                        resp |-> resp, ret |-> Return(None, 0)]
    /\ UNCHANGED <<env, linear_config, access_token, phase>>

HealthCheck ==
    /\ phase = "running"
    /\ \E ts \in Timestamps :
        last' = [op |-> "health", req |-> NoRequest, upstream |-> NoUpstream,
                 resp |-> [NoResponse EXCEPT !.code = 200, !.content = health_check(ts)],
                 ret |-> Return(None, 0)]
    /\ UNCHANGED <<env, linear_config, access_token, phase, outbound>>

ClientCall(op, ret, upstream) ==
    /\ outbound + ret.posts <= MaxOutbound
    /\ outbound' = outbound + ret.posts
    /\ last' = [op |-> op, req |-> NoRequest,
                upstream |-> IF ret.posts = 0 THEN NoUpstream ELSE upstream,
                resp |-> NoResponse, ret |-> ret]
    /\ UNCHANGED <<env, linear_config, access_token, phase>>

MakeLinearRequest ==
    \E u \in TrackerResponses :
        ClientCall("make_linear_request", make_linear_request(access_token, u), u)

GetTeamIssues ==
    \E u \in TrackerResponses :
        ClientCall("get_team_issues", get_team_issues(access_token, u), u)

CreateIssueComment ==
    \E u \in TrackerResponses :
        ClientCall("create_issue_comment", create_issue_comment(access_token, u), u)

Next ==
    \/ startup_event
    \/ HandleWebhook
    \/ HealthCheck
    \/ MakeLinearRequest
    \/ GetTeamIssues
    \/ CreateIssueComment

Spec == Init /\ [][Next]_vars

-----------------------------------------------------------------------------
\* Properties

ClientOps == {"make_linear_request", "get_team_issues", "create_issue_comment"}
IsWebhook == last.op = "webhook"
Payload == last.req.body.value
\* the last request was a webhook whose body parsed to a JSON object
IsEnvelope == IsWebhook /\ last.req.body.parseable /\ Payload.k = "dict"
TypeOf == IF "type" \in DOMAIN Payload.f THEN Payload.f["type"] ELSE None
DataOf == IF "data" \in DOMAIN Payload.f THEN Payload.f["data"] ELSE EmptyDict
\* data[key], or None when data has no such key
DataField(key) ==
    IF DataOf.k = "dict" /\ key \in DOMAIN DataOf.f THEN DataOf.f[key] ELSE None
Content == last.resp.content
ContentField(key) ==
    IF Content.k = "dict" /\ key \in DOMAIN Content.f THEN Content.f[key] ELSE Absent

\* C1: every webhook whose envelope has type "Assignment" is answered 200 with
\* status "processed" and with the assignee and issue identifiers of data
\* (None where data has no such key).
C1_AssignmentAlwaysProcessed ==
    (IsEnvelope /\ TypeOf = Str("Assignment")) =>
        /\ last.resp.code = 200
        /\ ContentField("status") = Str("processed")
        /\ ContentField("assignee_id") = DataField("assigneeId")
        /\ ContentField("issue_id") = DataField("issueId")

SignatureMatches ==
    last.req.signature = [mac_key |-> linear_config.webhook_secret, mac_msg |-> last.req.body]

\* C3: a webhook whose signature is not the HMAC of its body under the webhook
\* secret is answered 403 and reaches no handler.
C3_BadSignatureRejected ==
    (IsWebhook /\ ~SignatureMatches) =>
        (last.resp.code = 403 /\ last.resp.called = "none")

\* C4: a webhook whose body is not JSON, and any webhook during which an
\* exception was raised, is answered 500 with detail "Internal server error",
\* and the server goes on serving webhook and health requests.
C4_ExceptionsBecome500 ==
    IsWebhook =>
        /\ (~last.req.body.parseable) => last.resp.exc # ""
        /\ (last.resp.exc # "") =>
              /\ last.resp.code = 500
              /\ last.resp.detail = "Internal server error"
              /\ last.resp.content = None
              /\ phase = "running"
              /\ ENABLED HandleWebhook
              /\ ENABLED HealthCheck

\* an unparseable body was answered 500
C4_Witness ==
    /\ IsWebhook
    /\ ~last.req.body.parseable
    /\ last.resp.code = 500
    /\ last.resp.exc = "JSONDecodeError"

\* C5: while the access token is None or empty no request has been sent to the
\* tracker, and every client call raises without posting.
C5_NoTokenNoRequest ==
    (access_token \in {None, Str("")}) =>
        /\ outbound = 0
        /\ (last.op \in ClientOps) =>
              /\ last.ret.raised
              /\ last.ret.exc = "Exception: Not authenticated"
              /\ last.ret.posts = 0

\* create_issue_comment was called with an empty token and raised
C5_Witness ==
    /\ access_token = Str("")
    /\ last.op = "create_issue_comment"
    /\ last.ret.raised
    /\ outbound = 0

\* C6: a client call that the tracker answered with a 4xx or 5xx status raised,
\* returned nothing, and posted exactly once.
C6_UpstreamErrorRaises ==
    (last.op \in ClientOps /\ last.upstream.status >= 400 /\ last.upstream.status < 600) =>
        /\ last.ret.raised
        /\ last.ret.exc = "HTTPError"
        /\ last.ret.value = None
        /\ last.ret.posts = 1

\* get_team_issues got a 404 carrying a partial body and raised
C6_Witness ==
    /\ last.op = "get_team_issues"
    /\ last.upstream = [status |-> 404, body |-> "partial"]
    /\ last.ret.raised
    /\ last.ret.posts = 1

\* the envelope lacks one of type, action, data, or its data is not an object
Misshapen ==
    \/ Payload.k # "dict"
    \/ {"type", "action", "data"} \ DOMAIN Payload.f # {}
    \/ DataOf.k # "dict"

\* C7: every webhook whose body parses as JSON but lacks the envelope shape is
\* answered 200.
C7_MalformedNeverRejected ==
    (IsWebhook /\ last.req.body.parseable /\ Misshapen) => last.resp.code = 200

\* the last request with its action replaced by a (Absent: removed)
WithAction(a) ==
    [last.req EXCEPT !.body.value.f =
        [x \in (DOMAIN Payload.f \ {"action"}) \cup (IF a = Absent THEN {} ELSE {"action"}) |->
            IF x = "action" THEN a ELSE Payload.f[x]]]

\* C8: type "Issue" always yields "processed" with issue_id = data.id, type
\* "Comment" always yields exactly {status: "comment_processed"}, and the
\* response does not depend on action.
C8_TypeAloneSelects ==
    IsEnvelope =>
        /\ (TypeOf = Str("Issue")) =>
              /\ last.resp.code = 200
              /\ ContentField("status") = Str("processed")
              /\ ContentField("issue_id") = DataField("id")
        /\ (TypeOf = Str("Comment")) =>
              /\ last.resp.code = 200
              /\ Content = [k |-> "dict", f |-> [status |-> Str("comment_processed")]]
        /\ \A a \in ActionVals : \E ts \in Timestamps :
              handle_webhook(WithAction(a), ts) = last.resp

\* C9: a webhook or health request leaves the environment, the configuration
\* and the access token as they were and sends nothing to the tracker.
C9_WebhookNoSideEffects ==
    [][ (last'.op \in {"webhook", "health"}) =>
            /\ access_token' = access_token
            /\ linear_config' = linear_config
            /\ env' = env
            /\ phase' = phase
            /\ outbound' = outbound
            /\ last'.resp.posts = 0 ]_vars

\* an assignment webhook was processed after the client had posted to the tracker
C9_Witness ==
    /\ IsEnvelope
    /\ TypeOf = Str("Assignment")
    /\ last.resp.code = 200
    /\ outbound = MaxOutbound
    /\ access_token = Str("lin_tok")

\* C10: after authenticate_app returned True no client call raises "Not
\* authenticated"; after it returned False startup_event raised and every
\* client call raises.
C10_AuthenticationAgrees ==
    /\ (last.op = "startup") => (last.ret.raised <=> phase = "startup_failed")
    /\ (phase = "running" /\ last.op \in ClientOps) =>
          last.ret.exc # "Exception: Not authenticated"
    /\ (phase = "startup_failed" /\ last.op \in ClientOps) => last.ret.raised

====
